---- MODULE Spec2Model ----
(***************************************************************************)
(* GeoMentions: gazetteer matching of normalised tokens and token pairs,   *)
(* aggregation of the matches into ranked mentions, and the derived views  *)
(* of a result (filter_cities, country_counts).                            *)
(*                                                                         *)
(* A text is a sequence of characters, each character a one-character      *)
(* string; a token is a string.  Python's None is the value None below for *)
(* strings and the empty set for optional integers ({} is None, {n} is n). *)
(***************************************************************************)
EXTENDS Integers, Sequences, FiniteSets, TLC

VARIABLES
    city_index,          \* GeoMentions.city_index
    country_index,       \* GeoMentions.country_index
    standardize_names,   \* GeoMentions.standardize_names
    text,                \* the argument of the fit call
    city_collection,     \* fit's local city_collection
    country_collection,  \* fit's local country_collection
    city_mentions,       \* GeoMentionsResult.city_mentions
    country_mentions,    \* GeoMentionsResult.country_mentions
    query,               \* the last derived view asked of the result, with its arguments
    answer,              \* what that view returned
    pc                   \* "ready", "done" (a result exists) or "raised"

vars == <<city_index, country_index, standardize_names, text, city_collection,
          country_collection, city_mentions, country_mentions, query, answer, pc>>

(***************************************************************************)
(* Bounds of the model.                                                    *)
(***************************************************************************)
MaxTextLen == 5
MaxCityMentions == 2
MaxCountryMentions == 1

None == "None"

\* Python truthiness of an optional string: None and "" are false.
Truthy(s) == s # None /\ s # ""

(***************************************************************************)
(* Characters.  NBSP stands for U+00A0, which NFKC maps to a space.        *)
(***************************************************************************)
NBSP == "<U+00A0>"

Letters == {"a", "b", "I", "l", "o", "v", "e", "P", "r", "i", "s", "n", "d",
            "F", "c", "t", "u", "f"}

IsLetter(c) == c \in Letters
IsMark(c) == FALSE
IsNumber(c) == c \in {"0", "1"}
IsSpace(c) == c = " "

\* unicodedata.normalize('NFKC', text), character by character
NFKC(t) == [i \in 1..Len(t) |-> IF t[i] = NBSP THEN " " ELSE t[i]]

\* First index >= i of t that holds no letter or mark (Len(t) + 1 when none).
RECURSIVE SkipLettersMarks(_, _)
SkipLettersMarks(t, i) ==
    IF i > Len(t) THEN i
    ELSE IF IsLetter(t[i]) \/ IsMark(t[i]) THEN SkipLettersMarks(t, i + 1)
    ELSE i

\* regex.sub(r"(?<=\p{L})'[\p{L}\p{M}]*", '', text), scanning from index i
RECURSIVE StripPossessive(_, _)
StripPossessive(t, i) ==
    IF i > Len(t) THEN <<>>
    ELSE IF t[i] = "'" /\ i > 1 /\ IsLetter(t[i - 1])
         THEN StripPossessive(t, SkipLettersMarks(t, i + 1))
         ELSE <<t[i]>> \o StripPossessive(t, i + 1)

\* Mutant: punctuation is left in the text.
ReplaceSymbols_Kept(t) == t

\* regex.sub(r"[^\p{L}\p{M}\p{N}\s]", " ", text)
ReplaceSymbols(t) ==
    [i \in 1..Len(t) |->
        IF IsLetter(t[i]) \/ IsMark(t[i]) \/ IsNumber(t[i]) \/ IsSpace(t[i])
        THEN t[i] ELSE " "]

\* text.split(): the maximal runs of non-whitespace, in order. cur is the
\* run being read (a string), "" when none.
RECURSIVE SplitWhitespace(_, _, _)
SplitWhitespace(t, i, cur) ==
    IF i > Len(t) THEN (IF cur = "" THEN <<>> ELSE <<cur>>)
    ELSE IF IsSpace(t[i])
         THEN (IF cur = "" THEN <<>> ELSE <<cur>>) \o SplitWhitespace(t, i + 1, "")
         ELSE SplitWhitespace(t, i + 1, cur \o t[i])

_split_text(t) == SplitWhitespace(ReplaceSymbols(StripPossessive(NFKC(t), 1)), 1, "")

(***************************************************************************)
(* Gazetteers: functions from lookup keys to entries.                      *)
(***************************************************************************)
\* index.get(key) is not None
Has(index, key) == key \in DOMAIN index

\* the truth value of index.get(key): a missing key and an empty entry are false
HasTruthy(index, key) == key \in DOMAIN index /\ DOMAIN index[key] # {}

\* entry.get(field)
Get(entry, field) == IF field \in DOMAIN entry THEN entry[field] ELSE None

\* Mutant: the record's canonical name is stored as the matched key.
GeoResult_NameAsKey(name, entry) ==
    [key |-> Get(entry, "name"),
     name |-> Get(entry, "name"),
     country_code |-> Get(entry, "country_code"),
     population |-> entry.population,
     time_zone |-> Get(entry, "timezone"),
     coordinates |-> Get(entry, "coordinates")]

GeoResult(name, entry) ==
    [key |-> name,
     name |-> Get(entry, "name"),
     country_code |-> Get(entry, "country_code"),
     population |-> entry.population,   \* every entry of the shipped indexes has one
     time_zone |-> Get(entry, "timezone"),
     coordinates |-> Get(entry, "coordinates")]

(***************************************************************************)
(* Mention Matcher.  A list access that Python would refuse (IndexError)   *)
(* makes the call raise: the result is Raise, otherwise Ok(collection).    *)
(***************************************************************************)
Ok(collection) == [raised |-> FALSE, collection |-> collection]
Raise == [raised |-> TRUE, collection |-> <<>>]

\* word_list[i] is defined for the Python index i
InRange(word_list, i) == 0 <= i /\ i < Len(word_list)

_generate_bigrams(word_list) ==
    [i \in 1..(Len(word_list) - 1) |-> <<word_list[i], word_list[i + 1]>>]

\* " ".join(bigram)
Join(bigram) == bigram[1] \o " " \o bigram[2]

\* Mutant: a matching bigram makes the scan skip the bigram that overlaps it.
RECURSIVE BigramMatches_NonOverlapping(_, _, _)
BigramMatches_NonOverlapping(bigrams, index, i) ==
    IF i > Len(bigrams) THEN <<>>
    ELSE IF Has(index, Join(bigrams[i]))
         THEN <<GeoResult(Join(bigrams[i]), index[Join(bigrams[i])])>>
                 \o BigramMatches_NonOverlapping(bigrams, index, i + 2)
         ELSE BigramMatches_NonOverlapping(bigrams, index, i + 1)

\* the first loop of _find_mentions, from the i-th bigram on: the matches appended
RECURSIVE BigramMatches(_, _, _)
BigramMatches(bigrams, index, i) ==
    IF i > Len(bigrams) THEN <<>>
    ELSE (IF Has(index, Join(bigrams[i]))
          THEN <<GeoResult(Join(bigrams[i]), index[Join(bigrams[i])])>>
          ELSE <<>>) \o BigramMatches(bigrams, index, i + 1)

\* Mutant: only the first word of a matching bigram is marked.
MatchedWords_FirstOnly(bigrams, index) ==
    {bigrams[i][1] : i \in {j \in 1..Len(bigrams) : Has(index, Join(bigrams[j]))}}

\* matched_words after the first loop
MatchedWords(bigrams, index) ==
    UNION {{bigrams[i][1], bigrams[i][2]} : i \in {j \in 1..Len(bigrams) : Has(index, Join(bigrams[j]))}}

\* Mutant: a word is suppressed only where the bigram before it or after it
\* matched, not wherever it occurs.
RECURSIVE UnigramMatches_ByPosition(_, _, _, _)
UnigramMatches_ByPosition(words, index, matched_words, i) ==
    IF i > Len(words) THEN <<>>
    ELSE (IF \/ (i > 1 /\ Has(index, words[i - 1] \o " " \o words[i]))
             \/ (i < Len(words) /\ Has(index, words[i] \o " " \o words[i + 1]))
          THEN <<>>
          ELSE IF HasTruthy(index, words[i])
               THEN <<GeoResult(words[i], index[words[i]])>>
               ELSE <<>>) \o UnigramMatches_ByPosition(words, index, matched_words, i + 1)

\* the second loop of _find_mentions, from the i-th word on
RECURSIVE UnigramMatches(_, _, _, _)
UnigramMatches(words, index, matched_words, i) ==
    IF i > Len(words) THEN <<>>
    ELSE (IF words[i] \in matched_words THEN <<>>
          ELSE IF HasTruthy(index, words[i])
               THEN <<GeoResult(words[i], index[words[i]])>>
               ELSE <<>>) \o UnigramMatches(words, index, matched_words, i + 1)

\* Mutant: the single-token branch is also taken for no token.
SingleTokenCase_AtMostOne(words) == Len(words) <= 1

\* The branch of _find_mentions taken for words: TRUE is the single-token branch.
SingleTokenCase(words) == Len(words) = 1

FindInWords(words, index) ==
    IF SingleTokenCase(words)
    THEN IF ~InRange(words, 0) THEN Raise
         ELSE IF Has(index, words[1])
              THEN Ok(<<GeoResult(words[1], index[words[1]])>>)
              ELSE Ok(<<>>)
    ELSE LET bigrams == _generate_bigrams(words) IN
         Ok(BigramMatches(bigrams, index, 1)
            \o UnigramMatches(words, index, MatchedWords(bigrams, index), 1))

_find_mentions(sample, index) == FindInWords(_split_text(sample), index)

(***************************************************************************)
(* Mention Aggregator.                                                     *)
(***************************************************************************)
key_fn(result, standardize) == IF standardize THEN result.name ELSE result.key

\* Counter(key_fn(city) for city in collection)[key]
Counts(collection, standardize, key) ==
    Cardinality({i \in 1..Len(collection) : key_fn(collection[i], standardize) = key})

\* Mutant: a present key keeps its first value.
DictPut_KeepFirst(items, k, v) ==
    IF \E p \in 1..Len(items) : items[p][1] = k
    THEN items
    ELSE Append(items, <<k, v>>)

\* dict assignment d[k] = v on an insertion-ordered dict kept as a sequence
\* of <<key, value>>: a present key keeps its place and takes the new value.
DictPut(items, k, v) ==
    IF \E p \in 1..Len(items) : items[p][1] = k
    THEN [p \in 1..Len(items) |-> IF items[p][1] = k THEN <<k, v>> ELSE items[p]]
    ELSE Append(items, <<k, v>>)

\* {key_fn(city): city for city in collection}.items(), over the first n matches
RECURSIVE DictItems(_, _, _)
DictItems(collection, standardize, n) ==
    IF n = 0 THEN <<>>
    ELSE DictPut(DictItems(collection, standardize, n - 1),
                 key_fn(collection[n], standardize), collection[n])

CityMention(name, count, city) ==
    [name |-> name, count |-> count, country_code |-> city.country_code,
     population |-> city.population, coordinates |-> city.coordinates]

\* Mutant: x goes in front of the equal counts (an unstable sort).
InsertByCount_Front(sorted, x) ==
    LET before == {p \in 1..Len(sorted) : sorted[p].count > x.count}
        k == Cardinality(before)
    IN  SubSeq(sorted, 1, k) \o <<x>> \o SubSeq(sorted, k + 1, Len(sorted))

\* x put into a list sorted by count descending, behind the equal counts
InsertByCount(sorted, x) ==
    LET before == {p \in 1..Len(sorted) : sorted[p].count >= x.count}
        k == Cardinality(before)
    IN  SubSeq(sorted, 1, k) \o <<x>> \o SubSeq(sorted, k + 1, Len(sorted))

\* sorted(results, key=lambda x: x.count, reverse=True): stable
RECURSIVE SortedByCount(_, _)
SortedByCount(results, n) ==
    IF n = 0 THEN <<>>
    ELSE InsertByCount(SortedByCount(results, n - 1), results[n])

count_results(collection, standardize) ==
    LET items == DictItems(collection, standardize, Len(collection))
        results == [p \in 1..Len(items) |->
                      CityMention(items[p][1],
                                  Counts(collection, standardize, items[p][1]),
                                  items[p][2])]
    IN  SortedByCount(results, Len(results))

(***************************************************************************)
(* Result Model.                                                           *)
(***************************************************************************)
\* Mutant: the lower bound is exclusive.
PassesMin_Strict(city, min_population) ==
    min_population = {} \/ \A m \in min_population : city.population > m

\* one conjunct of filter_cities' condition, for an optional bound
PassesMin(city, min_population) ==
    min_population = {} \/ \A m \in min_population : city.population >= m
PassesMax(city, max_population) ==
    max_population = {} \/ \A m \in max_population : city.population <= m
PassesCode(city, country_code) ==
    country_code = None \/ city.country_code = country_code

filter_cities(cities, min_population, max_population, country_code) ==
    LET Keep(city) == /\ PassesMin(city, min_population)
                      /\ PassesMax(city, max_population)
                      /\ PassesCode(city, country_code)
    IN  SelectSeq(cities, Keep)

\* Mutant: counter[key] = n.
CounterAdd_Overwrite(counter, key, n) ==
    IF key \in DOMAIN counter THEN [counter EXCEPT ![key] = n]
    ELSE counter @@ (key :> n)

\* counter[key] += n on a Counter kept as a function
CounterAdd(counter, key, n) ==
    IF key \in DOMAIN counter THEN [counter EXCEPT ![key] = @ + n]
    ELSE counter @@ (key :> n)

\* counter[key]: a missing key counts 0
CounterGet(counter, key) == IF key \in DOMAIN counter THEN counter[key] ELSE 0

\* whether the first loop of country_counts counts this city mention
CountsCity(city) == Truthy(city.country_code)

\* a Counter after the first loop of country_counts, over the first n cities
RECURSIVE CityCounter(_, _)
CityCounter(cities, n) ==
    IF n = 0 THEN <<>>
    ELSE IF CountsCity(cities[n])
         THEN CounterAdd(CityCounter(cities, n - 1), cities[n].country_code, cities[n].count)
         ELSE CityCounter(cities, n - 1)

\* a Counter that starts as start, after the second loop over the first n countries
RECURSIVE CountryCounter(_, _, _)
CountryCounter(start, countries, n) ==
    IF n = 0 THEN start
    ELSE CounterAdd(CountryCounter(start, countries, n - 1),
                    countries[n].country_code, countries[n].count)

country_counts(cities, countries) ==
    LET implicit_counter == CityCounter(cities, Len(cities))
        explicit_counter == CountryCounter(<<>>, countries, Len(countries))
        country_counter == CountryCounter(implicit_counter, countries, Len(countries))
    IN  [country \in DOMAIN country_counter |->
            [total_count |-> country_counter[country],
             implicit_count |-> CounterGet(implicit_counter, country),
             explicit_count |-> CounterGet(explicit_counter, country)]]

(***************************************************************************)
(* The inputs the model draws from.                                        *)
(***************************************************************************)
Entry(name, country_code, population, timezone, coordinates) ==
    [name |-> name, country_code |-> country_code, population |-> population,
     timezone |-> timezone, coordinates |-> coordinates]

Restrict(index, keys) == [k \in keys |-> index[k]]

EmptyIndex == Restrict(<<>>, {})

\* Two entries share the canonical name "B", and one entry has no country code.
CityMaster ==
    ("a" :> Entry("A", "FR", 1, "Europe/Paris", <<48, 2>>))
    @@ ("b" :> Entry("B", None, 3, "Etc/UTC", <<0, 0>>))
    @@ ("a a" :> Entry("B", "US", 2, "America/Chicago", <<41, -87>>))
    @@ ("a b" :> Entry("A", "US", 2, "America/New_York", <<40, -74>>))

CountryMaster ==
    ("b" :> Entry("F", "FR", 9, "Europe/Paris", <<46, 2>>))
    @@ ("a b" :> Entry("U", "US", 8, "America/New_York", <<39, -98>>))

\* the gazetteers of the end-to-end example, as the specification spells the keys
ExampleCityLower == "paris" :> Entry("Paris", "FR", 2138551, "Europe/Paris", <<48, 2>>)
ExampleCountryLower == "france" :> Entry("France", "FR", 64768389, "Europe/Paris", <<46, 2>>)
\* and with the keys spelled as create_index leaves them: in the case of the source names
ExampleCity == "Paris" :> Entry("Paris", "FR", 2138551, "Europe/Paris", <<48, 2>>)
ExampleCountry == "France" :> Entry("France", "FR", 64768389, "Europe/Paris", <<46, 2>>)

IndexPairs ==
    ({Restrict(CityMaster, K) : K \in SUBSET DOMAIN CityMaster}
        \X {Restrict(CountryMaster, K) : K \in SUBSET DOMAIN CountryMaster})
    \cup {<<ExampleCityLower, ExampleCountryLower>>, <<ExampleCity, ExampleCountry>>}

Alphabet == {"a", "b", " "}

\* "I love Paris and France. Paris is beautiful."
ExampleText ==
    <<"I", " ", "l", "o", "v", "e", " ", "P", "a", "r", "i", "s", " ", "a", "n", "d",
      " ", "F", "r", "a", "n", "c", "e", ".", " ", "P", "a", "r", "i", "s", " ", "i",
      "s", " ", "b", "e", "a", "u", "t", "i", "f", "u", "l", ".">>

\* texts with punctuation, possessives, digits and a no-break space
SampleTexts ==
    {ExampleText,
     <<"a", NBSP, "b", ".", "a", "1">>,
     <<"a", ",", "a", "'", "s", "!", "b">>,
     <<"b", "'", "a", " ", "'", "a", " ", "a">>,
     <<"a", "'", "b", "'", "a", "-", "b">>,
     <<".", "'", NBSP, "!">>}

Texts == UNION {[1..n -> Alphabet] : n \in 0..MaxTextLen} \cup SampleTexts

\* Mentions a result can be built from directly (GeoMentionsResult's constructor)
CityMentionPool ==
    [name : {"A"}, count : {1, 2}, country_code : {"FR", "US", None},
     population : {1, 2}, coordinates : {<<0, 0>>}]
CountryMentionPool ==
    [name : {"F"}, count : {1, 2}, country_code : {"FR", None},
     population : {9}, coordinates : {<<0, 0>>}]

SeqsUpTo(S, n) == UNION {[1..k -> S] : k \in 0..n}

NoQuery == [op |-> "none"]

(***************************************************************************)
(* The pipeline: construction, then one fit call.                          *)
(***************************************************************************)
Init ==
    /\ \E pair \in IndexPairs : city_index = pair[1] /\ country_index = pair[2]
    /\ standardize_names \in BOOLEAN
    /\ text = <<>>
    /\ city_collection = <<>>
    /\ country_collection = <<>>
    /\ city_mentions = <<>>
    /\ country_mentions = <<>>
    /\ query = NoQuery
    /\ answer = <<>>
    /\ pc = "ready"

fit(t) ==
    LET city == _find_mentions(t, city_index)
        country == _find_mentions(t, country_index)
    IN  /\ pc = "ready"
        /\ text' = t
        /\ IF city.raised \/ country.raised
           THEN /\ pc' = "raised"
                /\ UNCHANGED <<city_collection, country_collection,
                               city_mentions, country_mentions>>
           ELSE /\ city_collection' = city.collection
                /\ country_collection' = country.collection
                /\ city_mentions' = count_results(city.collection, standardize_names)
                /\ country_mentions' = count_results(country.collection, standardize_names)
                /\ pc' = "done"
        /\ UNCHANGED <<city_index, country_index, standardize_names, query, answer>>

Fit == \E t \in Texts : fit(t)

Next == Fit

Spec == Init /\ [][Next]_vars

(***************************************************************************)
(* The result model on its own: a result built from any two mention lists, *)
(* then its derived views, asked any number of times.                      *)
(***************************************************************************)
ResultInit ==
    /\ city_index = EmptyIndex
    /\ country_index = EmptyIndex
    /\ standardize_names = TRUE
    /\ text = <<>>
    /\ city_collection = <<>>
    /\ country_collection = <<>>
    /\ city_mentions \in SeqsUpTo(CityMentionPool, MaxCityMentions)
    /\ country_mentions \in SeqsUpTo(CountryMentionPool, MaxCountryMentions)
    /\ query = NoQuery
    /\ answer = <<>>
    /\ pc = "done"

FilterCities ==
    /\ pc = "done"
    /\ \E min_population \in {{}, {2}}, max_population \in {{}, {1}},
          country_code \in {None, "FR"} :
          /\ query' = [op |-> "filter_cities", min_population |-> min_population,
                       max_population |-> max_population, country_code |-> country_code]
          /\ answer' = filter_cities(city_mentions, min_population, max_population,
                                     country_code)
    /\ UNCHANGED <<city_index, country_index, standardize_names, text, city_collection,
                   country_collection, city_mentions, country_mentions, pc>>

CountryCounts ==
    /\ pc = "done"
    /\ query' = [op |-> "country_counts"]
    /\ answer' = country_counts(city_mentions, country_mentions)
    /\ UNCHANGED <<city_index, country_index, standardize_names, text, city_collection,
                   country_collection, city_mentions, country_mentions, pc>>

ResultNext == FilterCities \/ CountryCounts

SpecResult == ResultInit /\ [][ResultNext]_vars

(***************************************************************************)
(* Vocabulary of the properties.                                           *)
(***************************************************************************)
Tokens == _split_text(text)

\* the lookup key of the pair (W[i], W[i+1])
PairKey(W, i) == W[i] \o " " \o W[i + 1]

\* the indices i whose pair is a key of index
MatchingPairs(W, index) == {i \in 1..(Len(W) - 1) : PairKey(W, i) \in DOMAIN index}

\* the words that are a constituent of some matching pair
Consumed(W, index) == {W[p] : p \in UNION {{i, i + 1} : i \in MatchingPairs(W, index)}}

\* the positions that lie inside some matching pair
CoveredPositions(W, index) == UNION {{i, i + 1} : i \in MatchingPairs(W, index)}

\* the k-th smallest element of a finite set of integers
Kth(S, k) == CHOOSE x \in S : Cardinality({y \in S : y <= x}) = k

\* the elements of S in ascending order
Ascending(S) == [k \in 1..Cardinality(S) |-> Kth(S, k)]

\* match is the raw match of key under index
IsMatchOf(match, key, index) ==
    /\ match.key = key
    /\ match.name = index[key].name
    /\ match.country_code = index[key].country_code
    /\ match.population = index[key].population
    /\ match.time_zone = index[key].timezone
    /\ match.coordinates = index[key].coordinates

RECURSIVE SumCounts(_, _)
SumCounts(mentions, S) ==
    IF S = {} THEN 0
    ELSE LET i == CHOOSE x \in S : TRUE
         IN  mentions[i].count + SumCounts(mentions, S \ {i})

\* the sum of the counts of the mentions that carry code
CountFor(mentions, code) ==
    SumCounts(mentions, {i \in 1..Len(mentions) : mentions[i].country_code = code})

\* the rollup of the stored result
Rollup == country_counts(city_mentions, country_mentions)

ExampleOutcome ==
    /\ \E i \in 1..Len(city_mentions) :
          city_mentions[i].name = "Paris" /\ city_mentions[i].count = 2
    /\ \E i \in 1..Len(country_mentions) :
          country_mentions[i].name = "France" /\ country_mentions[i].count = 1
    /\ "FR" \in DOMAIN Rollup
    /\ Rollup["FR"] = [total_count |-> 3, implicit_count |-> 2, explicit_count |-> 1]

(***************************************************************************)
(* C1 as stated: with the gazetteer keys "paris" and "france", fitting     *)
(* "I love Paris and France. Paris is beautiful." yields the city mention  *)
(* Paris with count 2, the country mention France with count 1, and the    *)
(* rollup entry FR = {total 3, implicit 2, explicit 1}.                    *)
(***************************************************************************)
C1_LowercaseKeys ==
    (pc = "done" /\ text = ExampleText /\ city_index = ExampleCityLower
        /\ country_index = ExampleCountryLower) => ExampleOutcome

(***************************************************************************)
(* C1 as amended: the same outcome holds when the gazetteer keys are       *)
(* spelled "Paris" and "France", in the case of the text's tokens (no case *)
(* folding is done), and no other key matches a token or token pair.       *)
(***************************************************************************)
C1_ExampleEndToEnd ==
    (pc = "done" /\ text = ExampleText /\ city_index = ExampleCity
        /\ country_index = ExampleCountry) => ExampleOutcome

C1_Witness ==
    /\ pc = "done" /\ text = ExampleText
    /\ city_index = ExampleCity /\ country_index = ExampleCountry
    /\ Len(city_collection) = 2 /\ Len(country_collection) = 1

(***************************************************************************)
(* C2: bigram priority.  With two or more tokens, a word of a pair that is *)
(* a gazetteer key has no unigram match; a word that is a constituent of   *)
(* no matching pair and is itself a key is matched as a unigram, once per  *)
(* occurrence.                                                             *)
(***************************************************************************)
BigramPriority(W, index, collection) ==
    Len(W) >= 2 =>
        /\ \A i \in MatchingPairs(W, index) :
              \A m \in 1..Len(collection) : collection[m].key \notin {W[i], W[i + 1]}
        /\ \A p \in 1..Len(W) :
              (W[p] \notin Consumed(W, index) /\ W[p] \in DOMAIN index) =>
                 /\ Cardinality({m \in 1..Len(collection) : collection[m].key = W[p]})
                      = Cardinality({q \in 1..Len(W) : W[q] = W[p]})
                 /\ \A m \in 1..Len(collection) :
                       collection[m].key = W[p] => IsMatchOf(collection[m], W[p], index)

C2_BigramPriority ==
    pc = "done" =>
        /\ BigramPriority(Tokens, city_index, city_collection)
        /\ BigramPriority(Tokens, country_index, country_collection)

\* a matching pair, and beside it an unconsumed word matched as a unigram
C2_Witness ==
    /\ pc = "done"
    /\ MatchingPairs(Tokens, city_index) # {}
    /\ \E p \in 1..Len(Tokens) :
          /\ Tokens[p] \notin Consumed(Tokens, city_index)
          /\ Tokens[p] \in DOMAIN city_index
    /\ \E w \in Consumed(Tokens, city_index) : w \in DOMAIN city_index

(***************************************************************************)
(* C3: aggregation.  count_results returns one Mention per distinct        *)
(* grouping key (canonical name when standardize_names, matched key        *)
(* otherwise); its count is the number of raw matches with that key;       *)
(* counts descend; equal counts keep the order of first appearance.        *)
(***************************************************************************)
GroupingKey(match) == IF standardize_names THEN match.name ELSE match.key

FirstAppearance(collection, key) ==
    Kth({j \in 1..Len(collection) : GroupingKey(collection[j]) = key}, 1)

Aggregated(collection, mentions) ==
    /\ {mentions[i].name : i \in 1..Len(mentions)}
          = {GroupingKey(collection[j]) : j \in 1..Len(collection)}
    /\ \A i, k \in 1..Len(mentions) : mentions[i].name = mentions[k].name => i = k
    /\ \A i \in 1..Len(mentions) :
          mentions[i].count
             = Cardinality({j \in 1..Len(collection) :
                               GroupingKey(collection[j]) = mentions[i].name})
    /\ \A i, k \in 1..Len(mentions) :
          i < k =>
             /\ mentions[i].count >= mentions[k].count
             /\ mentions[i].count = mentions[k].count =>
                   FirstAppearance(collection, mentions[i].name)
                      < FirstAppearance(collection, mentions[k].name)

C3_Aggregation ==
    pc = "done" =>
        /\ Aggregated(city_collection, city_mentions)
        /\ Aggregated(country_collection, country_mentions)

\* a key counted twice whose first raw match follows that of a key counted once
C3_Witness ==
    /\ pc = "done"
    /\ Len(city_mentions) = 2
    /\ city_mentions[1].count = 2 /\ city_mentions[2].count = 1
    /\ FirstAppearance(city_collection, city_mentions[1].name)
          > FirstAppearance(city_collection, city_mentions[2].name)

(***************************************************************************)
(* C4: country rollup.  country_counts has an entry for every country code *)
(* carried by a city mention or by a country mention; implicit_count sums  *)
(* the city mentions of the code, explicit_count the country mentions,     *)
(* total_count is their sum; a code only on city mentions has              *)
(* explicit_count 0; city mentions without a country code are skipped.     *)
(***************************************************************************)
CarriedCodes ==
    ({city_mentions[i].country_code : i \in 1..Len(city_mentions)}
        \cup {country_mentions[i].country_code : i \in 1..Len(country_mentions)})
    \ {None, ""}

C4_CountryRollup ==
    query.op = "country_counts" =>
        /\ CarriedCodes \subseteq DOMAIN answer
        /\ \A code \in CarriedCodes :
              /\ answer[code].implicit_count = CountFor(city_mentions, code)
              /\ answer[code].explicit_count = CountFor(country_mentions, code)
              /\ answer[code].total_count
                    = answer[code].implicit_count + answer[code].explicit_count
              /\ (\A i \in 1..Len(country_mentions) :
                     country_mentions[i].country_code # code)
                    => answer[code].explicit_count = 0
        /\ \A code \in (DOMAIN answer) \ CarriedCodes :
              /\ \E i \in 1..Len(country_mentions) : country_mentions[i].country_code = code
              /\ answer[code].implicit_count = 0

\* one code on two city mentions and a country mention, another on no country
\* mention, and a city mention without a code
C4_Witness ==
    /\ query.op = "country_counts"
    /\ Len(city_mentions) >= 2 /\ Len(country_mentions) >= 1
    /\ \E i, k \in 1..Len(city_mentions) :
          /\ i # k
          /\ city_mentions[i].country_code = "US"
          /\ city_mentions[k].country_code = None
    /\ country_mentions[1].country_code = "FR"
    /\ answer["US"].explicit_count = 0

(***************************************************************************)
(* C5: fit is total.  No text makes fit raise; a gazetteer none of whose   *)
(* keys is a token or a pair of adjacent tokens gives an empty mention     *)
(* sequence.                                                               *)
(***************************************************************************)
NothingMatches(W, index) ==
    /\ \A p \in 1..Len(W) : W[p] \notin DOMAIN index
    /\ MatchingPairs(W, index) = {}

C5_FitTotal ==
    /\ pc \in {"ready", "done"}
    /\ pc = "done" =>
          /\ NothingMatches(Tokens, city_index) =>
                city_collection = <<>> /\ city_mentions = <<>>
          /\ NothingMatches(Tokens, country_index) =>
                country_collection = <<>> /\ country_mentions = <<>>

\* a text that is not empty and normalizes to no token, against gazetteers with keys
C5_Witness ==
    /\ pc = "done"
    /\ text # <<>> /\ Tokens = <<>>
    /\ DOMAIN city_index # {} /\ DOMAIN country_index # {}
    /\ city_mentions = <<>> /\ country_mentions = <<>>

(***************************************************************************)
(* C6: filter_cities returns the stored city mentions that pass every      *)
(* given filter (population >= min_population, population <=               *)
(* max_population, country_code equal), in their stored order; all of them *)
(* without a filter; none when min_population > max_population.            *)
(***************************************************************************)
Passing ==
    {i \in 1..Len(city_mentions) :
        /\ \A m \in query.min_population : city_mentions[i].population >= m
        /\ \A m \in query.max_population : city_mentions[i].population <= m
        /\ query.country_code # None => city_mentions[i].country_code = query.country_code}

C6_FilterCities ==
    query.op = "filter_cities" =>
        /\ Len(answer) = Cardinality(Passing)
        /\ \A k \in 1..Len(answer) : answer[k] = city_mentions[Kth(Passing, k)]
        /\ (query.min_population = {} /\ query.max_population = {}
               /\ query.country_code = None) => answer = city_mentions
        /\ (\E lo \in query.min_population, hi \in query.max_population : lo > hi)
              => answer = <<>>

\* a filter that keeps the second of two stored mentions for meeting its bound
C6_Witness ==
    /\ query.op = "filter_cities"
    /\ query.min_population = {2} /\ query.max_population = {}
    /\ Len(city_mentions) = 2
    /\ city_mentions[1].population = 1 /\ city_mentions[2].population = 2
    /\ answer = <<city_mentions[2]>>

(***************************************************************************)
(* C7: single-token input.  With exactly one token, the raw match list of  *)
(* a gazetteer is the one match of that token when it is a key of the      *)
(* gazetteer, and empty otherwise.                                         *)
(***************************************************************************)
SingleToken(W, index, collection) ==
    Len(W) = 1 =>
        IF W[1] \in DOMAIN index
        THEN Len(collection) = 1 /\ IsMatchOf(collection[1], W[1], index)
        ELSE collection = <<>>

C7_SingleToken ==
    pc = "done" =>
        /\ SingleToken(Tokens, city_index, city_collection)
        /\ SingleToken(Tokens, country_index, country_collection)

\* one token, a key of the city gazetteer and no key of the country gazetteer
C7_Witness ==
    /\ pc = "done"
    /\ Len(Tokens) = 1
    /\ Tokens[1] \in DOMAIN city_index /\ Len(city_collection) = 1
    /\ DOMAIN country_index # {} /\ Tokens[1] \notin DOMAIN country_index
    /\ country_collection = <<>>

(***************************************************************************)
(* C8: matcher output order.  With two or more tokens the raw match list   *)
(* is one bigram match per index i, ascending, whose pair is a key (a pair *)
(* sharing a token with an earlier matching pair included), then one       *)
(* unigram match per position, ascending, whose word is not consumed and   *)
(* is a key; no bigram match follows a unigram match.                      *)
(***************************************************************************)
UnigramPositions(W, index) ==
    {p \in 1..Len(W) : W[p] \notin Consumed(W, index) /\ W[p] \in DOMAIN index}

MatchOrder(W, index, collection) ==
    Len(W) >= 2 =>
        LET pairs == Ascending(MatchingPairs(W, index))
            singles == Ascending(UnigramPositions(W, index))
        IN  /\ Len(collection) = Len(pairs) + Len(singles)
            /\ \A m \in 1..Len(pairs) :
                  IsMatchOf(collection[m], PairKey(W, pairs[m]), index)
            /\ \A m \in 1..Len(singles) :
                  IsMatchOf(collection[Len(pairs) + m], W[singles[m]], index)

C8_MatchOrder ==
    pc = "done" =>
        /\ MatchOrder(Tokens, city_index, city_collection)
        /\ MatchOrder(Tokens, country_index, country_collection)

\* two matching pairs that share a token, both matched, in index order
C8_Witness ==
    /\ pc = "done"
    /\ {1, 2} \subseteq MatchingPairs(Tokens, city_index)
    /\ PairKey(Tokens, 1) # PairKey(Tokens, 2)
    /\ Len(city_collection) = 2
    /\ city_collection[1].key = PairKey(Tokens, 1)
    /\ city_collection[2].key = PairKey(Tokens, 2)

(***************************************************************************)
(* C9: suppression is by word, per gazetteer.  With two or more tokens, a  *)
(* word that is a constituent of a matching pair has no unigram match for  *)
(* that gazetteer, also where it occurs outside every matching pair; a     *)
(* word consumed in one gazetteer's pass and not in the other's is still   *)
(* matched as a unigram by the other.                                      *)
(***************************************************************************)
SuppressedByWord(W, index, collection) ==
    \A p \in (1..Len(W)) \ CoveredPositions(W, index) :
        W[p] \in Consumed(W, index) =>
            \A m \in 1..Len(collection) : collection[m].key # W[p]

PassesIndependent(W, index, other, collection) ==
    \A p \in 1..Len(W) :
        (/\ W[p] \in Consumed(W, other)
         /\ W[p] \notin Consumed(W, index)
         /\ W[p] \in DOMAIN index)
            => \E m \in 1..Len(collection) : IsMatchOf(collection[m], W[p], index)

C9_SuppressionByWord ==
    (pc = "done" /\ Len(Tokens) >= 2) =>
        /\ SuppressedByWord(Tokens, city_index, city_collection)
        /\ SuppressedByWord(Tokens, country_index, country_collection)
        /\ PassesIndependent(Tokens, city_index, country_index, city_collection)
        /\ PassesIndependent(Tokens, country_index, city_index, country_collection)

\* a key word outside every matching pair, suppressed for the city gazetteer,
\* and a word the city pass consumed, matched by the country pass
C9_Witness ==
    /\ pc = "done"
    /\ \E p \in (1..Len(Tokens)) \ CoveredPositions(Tokens, city_index) :
          Tokens[p] \in Consumed(Tokens, city_index) /\ Tokens[p] \in DOMAIN city_index
    /\ \E p \in 1..Len(Tokens) :
          /\ Tokens[p] \in Consumed(Tokens, city_index)
          /\ Tokens[p] \notin Consumed(Tokens, country_index)
          /\ \E m \in 1..Len(country_collection) : country_collection[m].key = Tokens[p]

(***************************************************************************)
(* C10: representative selection.  A Mention's country_code, population    *)
(* and coordinates are those of the last raw match with its grouping key;  *)
(* among Mentions of equal count the one whose grouping key has the        *)
(* earlier first raw match comes first.                                    *)
(***************************************************************************)
LastAppearance(collection, key) ==
    LET S == {j \in 1..Len(collection) : GroupingKey(collection[j]) = key}
    IN  Kth(S, Cardinality(S))

Representative(collection, mentions) ==
    /\ \A i \in 1..Len(mentions) :
          LET last == collection[LastAppearance(collection, mentions[i].name)]
          IN  /\ mentions[i].country_code = last.country_code
              /\ mentions[i].population = last.population
              /\ mentions[i].coordinates = last.coordinates
    /\ \A i, k \in 1..Len(mentions) :
          (i < k /\ mentions[i].count = mentions[k].count) =>
              FirstAppearance(collection, mentions[i].name)
                 < FirstAppearance(collection, mentions[k].name)

C10_Representative ==
    pc = "done" =>
        /\ Representative(city_collection, city_mentions)
        /\ Representative(country_collection, country_mentions)

\* a grouping key whose first raw match is a bigram match and whose last is a
\* unigram match of another entry
C10_Witness ==
    /\ pc = "done"
    /\ \E i \in 1..Len(city_mentions) :
          LET first == city_collection[FirstAppearance(city_collection, city_mentions[i].name)]
              last == city_collection[LastAppearance(city_collection, city_mentions[i].name)]
          IN  /\ first.country_code # last.country_code
              /\ first.key = "a a" /\ last.key = "b"
              /\ city_mentions[i].country_code = last.country_code
              /\ city_mentions[i].count = 2

====
